---- MODULE Spec2Model ----
(***************************************************************************)
(* A model of the buffrs package layer:                                    *)
(*   src/src/package.rs            PackageStore, Package::decode, PackageId *)
(*   src/src/package/compressed.rs Package::create / parse / unpack        *)
(*                                                                         *)
(* Strings are sequences of one-character strings, path components are     *)
(* such sequences (a fixed file name is a one-element sequence), paths are  *)
(* sequences of components, a file system is a function from the paths     *)
(* that exist to what is there.                                            *)
(***************************************************************************)
EXTENDS Integers, Sequences, FiniteSets, TLC

VARIABLES
    id_value,       \* the String handed to PackageId::try_from
    id_result,      \* Pending, or the Result it returned
    manifest_in,    \* the Manifest handed to Package::create
    files_in,       \* per call of create, the insertions that built its file map
    created,        \* per call of create, Pending or the Result it returned
    parsed,         \* Pending, or the Result of Package::parse(created[1].tgz)
    tgz_in,         \* archive bytes received from outside
    cwd_files,      \* the paths that are regular files under the process's cwd
    parse_out,      \* Pending, or the Result of Package::parse(tgz_in)
    decode_out,     \* Pending, or the Result of Package::decode(tgz_in)
    fs,             \* the file system: the paths that exist -> what is there
    up_name,        \* the name of the package being unpacked
    up_tgz,         \* its archive
    unpacked,       \* Pending, or what the last unpack was given and returned
    unpack_count,   \* the unpacks done so far
    released,       \* Pending, or the Result of PackageStore::release()
    inst,           \* the install call in progress: where it is and its locals
    downloads,      \* the packages the current install downloaded, in order
    install_result, \* Pending, or the Result of the last install call
    store_result,   \* Pending, or the Result of the last create/clear/uninstall
    ops,            \* the store operations started so far
    pkg_made,       \* Pending, or the Result of Package::create or parse
    pkg_call        \* Pending, or the outcome of a method called on it

idVars == <<id_value, id_result>>
archVars == <<manifest_in, files_in, created, parsed>>
parseVars == <<tgz_in, cwd_files, parse_out, decode_out>>
unpackVars == <<up_name, up_tgz, unpacked, unpack_count>>
installVars == <<inst, downloads, install_result, store_result, ops>>
packageVars == <<pkg_made, pkg_call>>
vars == <<idVars, archVars, parseVars, fs, unpackVars, released, installVars,
          packageVars>>

outsideId ==
    <<archVars, parseVars, fs, unpackVars, released, installVars, packageVars>>
outsideArchive ==
    <<idVars, parseVars, fs, unpackVars, released, installVars, packageVars>>
outsideParse ==
    <<idVars, archVars, fs, unpackVars, released, installVars, packageVars>>
outsideUnpack == <<idVars, archVars, parseVars, released, installVars, packageVars>>
outsideRelease ==
    <<idVars, archVars, parseVars, up_name, up_tgz, installVars, packageVars>>
outsideInstall ==
    <<idVars, archVars, parseVars, up_name, up_tgz, unpack_count, released,
      packageVars>>
outsidePackage ==
    <<idVars, archVars, parseVars, unpackVars, released, installVars>>

(***************************************************************************)
(* Results                                                                 *)
(***************************************************************************)
Ok(v) == [ok |-> TRUE, val |-> v]
Err(e) == [ok |-> FALSE, err |-> e]
Pending == [pending |-> TRUE]
IsDone(r) == r # Pending
IsOk(r) == r # Pending /\ r.ok
IsErr(r) == r # Pending /\ ~r.ok
\* Option::None; Some(x) is x
None == [is_none |-> TRUE]

(***************************************************************************)
(* The variables of the parts a specification does not exercise            *)
(***************************************************************************)
IdleId == id_value = <<>> /\ id_result = Pending
IdleArchive ==
    /\ manifest_in = None
    /\ files_in = <<>>
    /\ created = <<>>
    /\ parsed = Pending
IdleParse ==
    /\ tgz_in = None
    /\ cwd_files = {}
    /\ parse_out = Pending
    /\ decode_out = Pending
IdleFs == fs = <<>>
IdleUnpack ==
    /\ up_name = <<>>
    /\ up_tgz = None
    /\ unpacked = Pending
    /\ unpack_count = 0
IdleRelease == released = Pending
IdlePackage == pkg_made = Pending /\ pkg_call = Pending
IdleInstall ==
    /\ inst = [pc |-> "idle"]
    /\ downloads = <<>>
    /\ install_result = Pending
    /\ store_result = Pending
    /\ ops = 0

(***************************************************************************)
(* Characters and strings                                                  *)
(***************************************************************************)
LowerChars == {"a", "b", "c", "e", "g", "i", "k", "m", "o", "p", "y"}
UpperChars == {"M", "P"}
DigitChars == {"1", "2", "3"}
NonAsciiChars == {"é"}

\* char::is_ascii_lowercase: 'a'..='z' only
is_ascii_lowercase(c) == c \in LowerChars
\* char::is_ascii_alphabetic
is_ascii_alphabetic(c) == c \in LowerChars \cup UpperChars
\* char::is_ascii_alphanumeric
is_ascii_alphanumeric(c) == c \in LowerChars \cup UpperChars \cup DigitChars

\* UTF-8 length of one char
ByteLen(c) == IF c \in NonAsciiChars THEN 2 ELSE 1

RECURSIVE StrByteLen(_)
\* String::len(): the length in bytes
StrByteLen(s) == IF s = <<>> THEN 0 ELSE ByteLen(Head(s)) + StrByteLen(Tail(s))

\* str::get(0..1): None when empty or when byte 1 is not a char boundary
GetFirstByte(s) ==
    IF s = <<>> \/ ByteLen(s[1]) # 1 THEN Err("none") ELSE Ok(<<s[1]>>)

(***************************************************************************)
(* PackageId                                                               *)
(***************************************************************************)
MinIdLen == 2

\* the closure of the second ensure!
PackageIdCharOk(c) ==
    (is_ascii_alphanumeric(c) /\ is_ascii_lowercase(c)) \/ c = "-"

\* impl TryFrom<String> for PackageId
PackageIdTryFrom(value) ==
    IF ~(StrByteLen(value) > MinIdLen)
    THEN Err("Package ids must be at least three chars long")
    ELSE IF ~(\A i \in 1..Len(value) : PackageIdCharOk(value[i]))
    THEN Err("Package ids can only consist of lowercase alphanumeric ascii chars and dashes")
    ELSE IF ~GetFirstByte(value).ok
    THEN Err("Expected package id to be non empty")
    ELSE IF ~(\A i \in 1..Len(GetFirstByte(value).val) :
                  is_ascii_alphabetic(GetFirstByte(value).val[i]))
    THEN Err("Package ids must begin with an alphabetic letter")
    ELSE Ok(value)

\* PackageId::as_package_dir: self.0.replace('-', "_")
as_package_dir(id) == [i \in 1..Len(id) |-> IF id[i] = "-" THEN "_" ELSE id[i]]

\* Deref / as_str: the identifier unchanged
as_str(id) == id

(***************************************************************************)
(* Specification SpecId: PackageId::try_from on bounded strings            *)
(***************************************************************************)
MaxIdLen == 3
IdChars == {"a", "M", "2", "-", "_", "é"}

RECURSIVE StringsUpTo(_, _)
StringsUpTo(chars, n) ==
    IF n = 0 THEN {<<>>}
    ELSE LET shorter == StringsUpTo(chars, n - 1)
         IN  shorter \cup {Append(s, c) : s \in shorter, c \in chars}

\* the identifiers the specification names
NamedIds ==
    { <<"a", "b">>,
      <<"1", "a", "b", "c">>,
      <<"M", "y", "-", "P", "k", "g">>,
      <<"m", "y", "-", "p", "k", "g">>,
      <<"a", "2", "3">> }

IdInputs == StringsUpTo(IdChars, MaxIdLen) \cup NamedIds

InitId ==
    /\ id_value \in IdInputs
    /\ id_result = Pending
    /\ IdleArchive
    /\ IdleParse
    /\ IdleFs
    /\ IdleUnpack
    /\ IdleRelease
    /\ IdleInstall
    /\ IdlePackage

TryFromString ==
    /\ id_result = Pending
    /\ id_result' = PackageIdTryFrom(id_value)
    /\ UNCHANGED <<id_value, outsideId>>

NextId == TryFromString

SpecId == InitId /\ [][NextId]_vars

\* the identifiers claim C3 describes: at least three characters, the first
\* alphabetic, every later one a lowercase letter, a digit or '-'
ClaimedValidId(s) ==
    /\ Len(s) >= 3
    /\ is_ascii_alphabetic(s[1])
    /\ \A i \in 2..Len(s) :
           is_ascii_lowercase(s[i]) \/ s[i] \in DigitChars \/ s[i] = "-"

\* C3: PackageId::try_from accepts a string exactly when it has at least three
\* characters, starts with an alphabetic character and continues with
\* lowercase letters, digits and '-' only; "ab", "1abc" and "My-Pkg" are
\* rejected, "my-pkg" and "a23" are accepted.
C3_AcceptsExactlyValidIds ==
    IsDone(id_result) =>
        /\ id_value \in {<<"a", "2", "3">>, <<"m", "y", "-", "p", "k", "g">>}
               => id_result.ok
        /\ id_value \in {<<"a", "b">>, <<"1", "a", "b", "c">>,
                          <<"M", "y", "-", "P", "k", "g">>}
               => ~id_result.ok
        /\ id_result.ok <=> ClaimedValidId(id_value)


(***************************************************************************)
(* Paths                                                                   *)
(***************************************************************************)
\* manifest::MANIFEST_FILE, and the name of the original manifest's entry
MANIFEST_FILE == <<"Proto.toml">>
ManifestOrigFile == <<"Proto.toml.orig">>
ParentDir == <<"..">>

\* the components of the file maps handed to create, in byte order
ComponentOrder ==
    << ParentDir, MANIFEST_FILE, ManifestOrigFile,
       <<"a.proto">>, <<"b.proto">>, <<"sub">> >>

Rank(c) == CHOOSE i \in 1..Len(ComponentOrder) : ComponentOrder[i] = c

RECURSIVE PathLess(_, _)
\* impl Ord for PathBuf: the components compared lexicographically
PathLess(p, q) ==
    IF q = <<>> THEN FALSE
    ELSE IF p = <<>> THEN TRUE
    ELSE IF Head(p) = Head(q) THEN PathLess(Tail(p), Tail(q))
    ELSE Rank(Head(p)) < Rank(Head(q))

\* Path::ends_with: whole components, never a suffix of a file name
PathEndsWith(p, child) ==
    /\ Len(child) <= Len(p)
    /\ SubSeq(p, Len(p) - Len(child) + 1, Len(p)) = child

\* Path::starts_with
PathStartsWith(p, base) ==
    /\ Len(base) <= Len(p)
    /\ SubSeq(p, 1, Len(base)) = base

(***************************************************************************)
(* BTreeMap<PathBuf, Bytes>: the pairs <<key, value>> in ascending key     *)
(* order                                                                   *)
(***************************************************************************)
RECURSIVE BTreeInsert(_, _, _)
BTreeInsert(m, k, v) ==
    IF m = <<>> THEN << <<k, v>> >>
    ELSE IF Head(m)[1] = k THEN << <<k, v>> >> \o Tail(m)
    ELSE IF PathLess(k, Head(m)[1]) THEN << <<k, v>> >> \o m
    ELSE << Head(m) >> \o BTreeInsert(Tail(m), k, v)

RECURSIVE BTreeCollect(_)
\* the map a caller builds by inserting the pairs one after the other
BTreeCollect(inserts) ==
    IF inserts = <<>> THEN <<>>
    ELSE BTreeInsert(BTreeCollect(SubSeq(inserts, 1, Len(inserts) - 1)),
                     inserts[Len(inserts)][1], inserts[Len(inserts)][2])

(***************************************************************************)
(* File contents and manifests                                             *)
(***************************************************************************)
\* bytes that are no manifest text; utf8 says whether they decode as UTF-8
Data(n) == [kind |-> "bytes", utf8 |-> TRUE, n |-> n]
Binary(n) == [kind |-> "bytes", utf8 |-> FALSE, n |-> n]

EditionUnknown == "unknown"
EditionLatest == "latest"

\* Manifest::new: the current edition with the given package and dependencies
ManifestNew(package, dependencies) ==
    [edition |-> EditionLatest, package |-> package, dependencies |-> dependencies]

\* Manifest::for_publishing: path dependencies become registry dependencies;
\* an error when one of them has no publishable reference
for_publishing(manifest) ==
    IF \E i \in 1..Len(manifest.dependencies) :
           manifest.dependencies[i].source = "path_unpublishable"
    THEN Err("path dependency cannot be published")
    ELSE Ok([manifest EXCEPT !.dependencies =
                [i \in 1..Len(manifest.dependencies) |->
                    [manifest.dependencies[i] EXCEPT !.source = "registry"]]])

\* TryInto<String> for Manifest: the manifest as TOML text
ManifestToString(manifest) ==
    [kind |-> "toml", banner |-> FALSE, edition |-> manifest.edition,
     package |-> manifest.package, dependencies |-> manifest.dependencies]

\* MANIFEST_PREFIX pushed in front of the text (TOML comment lines)
WithPrefix(text) == [text EXCEPT !.banner = TRUE]

\* Manifest::try_parse: the comment banner is skipped by the TOML parser
ManifestTryParse(text) ==
    IF text.kind # "toml" THEN Err("DeserializationError(Manifest)")
    ELSE Ok([edition |-> text.edition, package |-> text.package,
             dependencies |-> text.dependencies])

(***************************************************************************)
(* tar and gzip                                                            *)
(***************************************************************************)
ReadOnlyMode == 292     \* 0o444

\* tar::Builder::append_data refuses a path that is empty or has a `..`
TarAcceptsPath(path) ==
    /\ path # <<>>
    /\ \A i \in 1..Len(path) : path[i] # ParentDir

\* flate2 GzEncoder / GzDecoder
GzEncode(tar) == [gzip |-> TRUE, tar |-> tar]
GzDecode(bytes) == IF bytes.gzip THEN Ok(bytes.tar) ELSE Err("invalid gzip stream")

(***************************************************************************)
(* package/compressed.rs: Package::create and Package::parse               *)
(***************************************************************************)
\* add_manifest_to_archive: one entry, mode 0o444, the optional prefix first
add_manifest_to_archive(archive, manifest, prefix, file_name) ==
    Append(archive,
           [path |-> <<file_name>>, mode |-> ReadOnlyMode,
            data |-> IF prefix THEN WithPrefix(ManifestToString(manifest))
                     ELSE ManifestToString(manifest)])

RECURSIVE AppendFiles(_, _)
\* the loop over &files: one entry per pair, in the map's order; the first
\* failing append_data aborts
AppendFiles(archive, files) ==
    IF files = <<>> THEN Ok(archive)
    ELSE IF ~TarAcceptsPath(Head(files)[1])
    THEN Err("failed to add proto to release tar")
    ELSE AppendFiles(
             Append(archive, [path |-> Head(files)[1], mode |-> ReadOnlyMode,
                              data |-> Head(files)[2]]),
             Tail(files))

\* a map that keeps insertion order instead of key order
FilesInInsertionOrder(inserts) == inserts

\* the files as create walks them: the BTreeMap's ascending order
FilesInOrder(inserts) == BTreeCollect(inserts)

\* the original manifest under the primary name, the published one as .orig
ManifestEntriesSwapped(manifest, published) ==
    add_manifest_to_archive(
        add_manifest_to_archive(<<>>, manifest, TRUE, MANIFEST_FILE),
        published, FALSE, ManifestOrigFile)

\* the two manifest entries create writes first
ManifestEntries(manifest, published) ==
    add_manifest_to_archive(
        add_manifest_to_archive(<<>>, published, TRUE, MANIFEST_FILE),
        manifest, FALSE, ManifestOrigFile)

\* Package::create(manifest, files), files given by its insertions
create(manifest_arg, inserts) ==
    LET manifest == IF manifest_arg.edition = EditionUnknown
                    THEN ManifestNew(manifest_arg.package, manifest_arg.dependencies)
                    ELSE manifest_arg
    IN  IF manifest.package = None
        THEN Err("failed to create package, manifest doesn't contain a package declaration")
        ELSE IF ~for_publishing(manifest).ok THEN for_publishing(manifest)
        ELSE LET archive ==
                     AppendFiles(
                         ManifestEntries(manifest, for_publishing(manifest).val),
                         FilesInOrder(inserts))
             IN  IF ~archive.ok THEN archive
                 ELSE Ok([manifest |-> manifest, tgz |-> GzEncode(archive.val)])

\* Iterator::find over the entries: the first one, in archive order, whose
\* flag is set
FindEntry(entries, accepted) ==
    IF \E i \in 1..Len(entries) : accepted[i]
    THEN Ok(entries[CHOOSE i \in 1..Len(entries) :
                        /\ accepted[i]
                        /\ \A j \in 1..(i - 1) : ~accepted[j]])
    ELSE Err("none")

\* the closure of find in Package::parse
ParseAcceptsEntry(entry) == PathEndsWith(entry.path, <<MANIFEST_FILE>>)

\* Package::parse(tgz)
parse(tgz) ==
    IF ~GzDecode(tgz).ok THEN Err("failed to decompress package")
    ELSE LET entries == GzDecode(tgz).val
             found == FindEntry(entries,
                          [i \in 1..Len(entries) |-> ParseAcceptsEntry(entries[i])])
         IN  IF ~found.ok THEN Err("missing manifest")
             ELSE IF found.val.data.kind = "bytes" /\ ~found.val.data.utf8
             THEN Err("manifest has invalid character encoding")
             ELSE IF ~ManifestTryParse(found.val.data).ok
             THEN ManifestTryParse(found.val.data)
             ELSE Ok([manifest |-> ManifestTryParse(found.val.data).val,
                      tgz |-> tgz])


(***************************************************************************)
(* package.rs: Package::decode                                             *)
(***************************************************************************)
\* toml::from_str::<RawManifest>
RawManifestFromStr(text) ==
    IF text.kind # "toml" THEN Err("Failed to parse the manifest")
    ELSE Ok([package |-> text.package, dependencies |-> text.dependencies])

\* the closure of find in Package::decode: Path::is_file looks the entry's
\* path up in the file system, relative to the cwd
DecodeAcceptsEntry(entry, files_on_disk) ==
    /\ entry.path \in files_on_disk
    /\ PathEndsWith(entry.path, <<MANIFEST_FILE>>)

\* Package::decode(tgz), run where files_on_disk are the regular files
decode(tgz, files_on_disk) ==
    IF ~GzDecode(tgz).ok THEN Err("Failed to decompress package")
    ELSE LET entries == GzDecode(tgz).val
             found == FindEntry(entries,
                          [i \in 1..Len(entries) |->
                              DecodeAcceptsEntry(entries[i], files_on_disk)])
         IN  IF ~found.ok THEN Err("Failed to find manifest in package")
             ELSE IF found.val.data.kind = "bytes" /\ ~found.val.data.utf8
             THEN Err("FromUtf8Error")
             ELSE IF ~RawManifestFromStr(found.val.data).ok
             THEN RawManifestFromStr(found.val.data)
             ELSE IF RawManifestFromStr(found.val.data).val.package = None
             THEN Err("The package section is missing the manifest")
             ELSE Ok([manifest |-> RawManifestFromStr(found.val.data).val.package,
                      tgz |-> tgz])

(***************************************************************************)
(* Specification SpecArchive: create called twice on the same logical      *)
(* input, then parse of what the first call returned                       *)
(***************************************************************************)
MaxFiles == 2
MaxDeps == 1

GEO == <<"g", "e", "o">>
MP == <<"m", "-", "p">>
API == <<"a", "p", "i">>

PackageManifest(name, type) == [name |-> name, version |-> 1, type |-> type]
Dependency(name, source) == [package |-> name, source |-> source]

FilePathsIn ==
    { << <<"b.proto">> >>, << <<"sub">>, <<"a.proto">> >>,
      << MANIFEST_FILE >>, << ParentDir, <<"a.proto">> >> }
FileBytes == {Data(1), Data(2)}

FileSets ==
    {F \in SUBSET (FilePathsIn \X FileBytes) :
        /\ Cardinality(F) <= MaxFiles
        /\ \A x \in F, y \in F : x[1] = y[1] => x = y}

\* every order in which the pairs of F can be inserted
InsertionOrders(F) ==
    {s \in [1..Cardinality(F) -> F] :
        \A i \in 1..Cardinality(F), j \in 1..Cardinality(F) : i # j => s[i] # s[j]}

DependenciesIn ==
    LET one == {Dependency(GEO, "registry"), Dependency(MP, "path"),
                Dependency(API, "path_unpublishable")}
    IN  UNION {[1..n -> one] : n \in 0..MaxDeps}

ManifestsIn ==
    [edition : {EditionUnknown, EditionLatest},
     package : {None, PackageManifest(GEO, "lib")},
     dependencies : {d \in DependenciesIn :
                        \A i \in 1..Len(d), j \in 1..Len(d) :
                            i < j => d[i].package # d[j].package}]

Calls == {1, 2}

InitArchive ==
    /\ IdleId
    /\ IdleParse
    /\ IdleFs
    /\ IdleUnpack
    /\ IdleRelease
    /\ IdleInstall
    /\ IdlePackage
    /\ manifest_in \in ManifestsIn
    /\ \E F \in FileSets :
           files_in \in [Calls -> InsertionOrders(F)]
    /\ created = [i \in Calls |-> Pending]
    /\ parsed = Pending

Create(i) ==
    /\ created[i] = Pending
    /\ created' = [created EXCEPT ![i] = create(manifest_in, files_in[i])]
    /\ UNCHANGED <<outsideArchive, manifest_in, files_in, parsed>>

Parse ==
    /\ IsOk(created[1])
    /\ parsed = Pending
    /\ parsed' = parse(created[1].val.tgz)
    /\ UNCHANGED <<outsideArchive, manifest_in, files_in, created>>

NextArchive == (\E i \in Calls : Create(i)) \/ Parse

SpecArchive == InitArchive /\ [][NextArchive]_vars


\* the file pairs the first call of create was given
FilesGiven == {files_in[1][i] : i \in 1..Len(files_in[1])}

\* the entries of the archive create returned, after the two manifests
FileEntries(package) ==
    LET tar == GzDecode(package.tgz).val IN SubSeq(tar, 3, Len(tar))

\* the archive has an entry for every given file, with the same bytes
CarriesFiles(package) ==
    \A f \in FilesGiven :
        \E i \in 1..Len(FileEntries(package)) :
            /\ FileEntries(package)[i].path = f[1]
            /\ FileEntries(package)[i].data = f[2]

\* the same package section and the same dependencies
Equivalent(m1, m2) ==
    /\ m1.package = m2.package
    /\ m1.dependencies = m2.dependencies

HasPathDependency(manifest) ==
    \E i \in 1..Len(manifest.dependencies) :
        manifest.dependencies[i].source # "registry"

Publishable(manifest) ==
    \A i \in 1..Len(manifest.dependencies) :
        manifest.dependencies[i].source # "path_unpublishable"

\* C1 as claimed, for the pairs create accepts: for every manifest with a
\* package section and every file set, parse of the archive create returned
\* succeeds, the parsed manifest is equivalent to the given one and to the one
\* create returned, and the archive carries every file byte for byte.
C1_RoundTripSameManifest ==
    (manifest_in.package # None /\ IsOk(created[1]) /\ IsDone(parsed)) =>
        /\ parsed.ok
        /\ Equivalent(parsed.val.manifest, manifest_in)
        /\ Equivalent(parsed.val.manifest, created[1].val.manifest)
        /\ CarriesFiles(created[1].val)

\* C1 amended: when the manifest has a package section, every path
\* dependency is publishable and no file path is empty or has a `..`, create
\* succeeds; parse of its archive then succeeds and returns the same archive
\* bytes with the published form of the manifest create returned (path
\* dependencies rewritten to registry dependencies), which is equivalent to
\* the given manifest when that declares no path dependency; the archive
\* carries every file byte for byte.
C1_RoundTripPublishedManifest ==
    /\ ( /\ manifest_in.package # None
         /\ Publishable(manifest_in)
         /\ \A f \in FilesGiven : TarAcceptsPath(f[1])
         /\ IsDone(created[1]) ) => created[1].ok
    /\ (IsOk(created[1]) /\ IsDone(parsed)) =>
          /\ parsed.ok
          /\ parsed.val.tgz = created[1].val.tgz
          /\ created[1].val.manifest.edition = EditionLatest
          /\ Equivalent(created[1].val.manifest, manifest_in)
          /\ parsed.val.manifest.edition = EditionLatest
          /\ parsed.val.manifest.package = manifest_in.package
          /\ Len(parsed.val.manifest.dependencies) = Len(manifest_in.dependencies)
          /\ \A i \in 1..Len(manifest_in.dependencies) :
                 /\ parsed.val.manifest.dependencies[i].package
                        = manifest_in.dependencies[i].package
                 /\ parsed.val.manifest.dependencies[i].source = "registry"
          /\ ~HasPathDependency(manifest_in) =>
                 Equivalent(parsed.val.manifest, manifest_in)
          /\ CarriesFiles(created[1].val)

\* a manifest with a path dependency went through create and parse
C1_Witness ==
    /\ HasPathDependency(manifest_in)
    /\ FilesGiven # {}
    /\ IsOk(created[1])
    /\ IsOk(parsed)

RECURSIVE Ascending(_)
Ascending(entries) ==
    \/ Len(entries) <= 1
    \/ /\ PathLess(entries[1].path, entries[2].path)
       /\ Ascending(Tail(entries))

\* C2: two calls of create with the same manifest and the same set of
\* (path, content) pairs, inserted in any order, return byte-identical
\* archives, whose file entries are in ascending path order.
C2_CreateDeterministic ==
    (IsDone(created[1]) /\ IsDone(created[2])) =>
        /\ created[1] = created[2]
        /\ created[1].ok =>
              /\ created[1].val.tgz = created[2].val.tgz
              /\ Ascending(FileEntries(created[1].val))

\* both calls returned an archive, from different insertion orders
C2_Witness ==
    /\ IsOk(created[1])
    /\ IsOk(created[2])
    /\ files_in[1] # files_in[2]
    /\ Len(files_in[1]) >= 2


(***************************************************************************)
(* Specification SpecParse: parse and decode of archives built elsewhere   *)
(***************************************************************************)
MaxEntries == 2

ForeignPaths ==
    { << MANIFEST_FILE >>, << ManifestOrigFile >>,
      << <<"sub">>, MANIFEST_FILE >>, << <<"b.proto">> >> }

ForeignData ==
    { ManifestToString(ManifestNew(PackageManifest(GEO, "lib"), <<>>)),
      ManifestToString(ManifestNew(None, <<>>)),
      Data(1), Binary(1) }

ForeignEntries == [path : ForeignPaths, mode : {ReadOnlyMode}, data : ForeignData]

ForeignArchives ==
    {[gzip |-> FALSE, tar |-> <<>>]}
        \cup {GzEncode(tar) : tar \in UNION {[1..n -> ForeignEntries] : n \in 0..MaxEntries}}

InitParse ==
    /\ IdleId
    /\ IdleArchive
    /\ IdleFs
    /\ IdleUnpack
    /\ IdleRelease
    /\ IdleInstall
    /\ IdlePackage
    /\ tgz_in \in ForeignArchives
    /\ cwd_files \in SUBSET {p \in ForeignPaths : PathEndsWith(p, <<MANIFEST_FILE>>)}
    /\ parse_out = Pending
    /\ decode_out = Pending

ParseBytes ==
    /\ parse_out = Pending
    /\ parse_out' = parse(tgz_in)
    /\ UNCHANGED <<outsideParse, tgz_in, cwd_files, decode_out>>

DecodeBytes ==
    /\ decode_out = Pending
    /\ decode_out' = decode(tgz_in, cwd_files)
    /\ UNCHANGED <<outsideParse, tgz_in, cwd_files, parse_out>>

NextParse == ParseBytes \/ DecodeBytes

SpecParse == InitParse /\ [][NextParse]_vars

\* the archive has an entry whose last path component is the manifest's name
HasManifestEntry(tgz) ==
    \E i \in 1..Len(tgz.tar) :
        /\ tgz.tar[i].path # <<>>
        /\ tgz.tar[i].path[Len(tgz.tar[i].path)] = MANIFEST_FILE

MissingManifest(result) ==
    /\ ~result.ok
    /\ result.err \in {"missing manifest", "Failed to find manifest in package"}

\* C6: loading an archive with no entry whose path ends with the manifest
\* file name fails with the missing-manifest error; Proto.toml.orig is no
\* manifest entry; and whether an entry counts is decided by the archive's
\* entries alone, so an archive that has a manifest entry never fails with
\* that error, whatever files exist on the local file system.
C6_ManifestLookupByArchiveOnly ==
    /\ (IsDone(parse_out) /\ tgz_in.gzip) =>
           (MissingManifest(parse_out) <=> ~HasManifestEntry(tgz_in))
    /\ (IsDone(decode_out) /\ tgz_in.gzip) =>
           (MissingManifest(decode_out) <=> ~HasManifestEntry(tgz_in))

\* what holds of Package::parse alone
ParseLooksAtArchiveOnly ==
    (IsDone(parse_out) /\ tgz_in.gzip) =>
        (MissingManifest(parse_out) <=> ~HasManifestEntry(tgz_in))


(***************************************************************************)
(* The file system                                                         *)
(***************************************************************************)
Dir == [kind |-> "dir"]
File(data) == [kind |-> "file", data |-> data]

\* the root <<>> always exists
IsDir(tree, p) == p = <<>> \/ (p \in DOMAIN tree /\ tree[p].kind = "dir")
IsFile(tree, p) == p \in DOMAIN tree /\ tree[p].kind = "file"

\* the outcome of a file system call: whether it succeeded and the tree it left
FsOk(tree) == [ok |-> TRUE, fs |-> tree]
FsErr(tree, e) == [ok |-> FALSE, fs |-> tree, err |-> e]

Prefixes(p) == {SubSeq(p, 1, k) : k \in 1..Len(p)}

\* a removal that reports success and removes nothing
remove_dir_all_keeping(tree, p) ==
    IF p # <<>> /\ IsDir(tree, p) THEN FsOk(tree) ELSE FsErr(tree, "NotFound")

\* fs::remove_dir_all: the directory and everything beneath it; an error when
\* there is no such directory
remove_dir_all(tree, p) ==
    IF p # <<>> /\ IsDir(tree, p)
    THEN FsOk([q \in {q \in DOMAIN tree : ~PathStartsWith(q, p)} |-> tree[q]])
    ELSE FsErr(tree, "NotFound")

\* fs::create_dir_all: the directory and its missing ancestors; an error when
\* a file is in the way
create_dir_all(tree, p) ==
    IF \E q \in Prefixes(p) : IsFile(tree, q)
    THEN FsErr(tree, "NotADirectory")
    ELSE FsOk([q \in DOMAIN tree \cup Prefixes(p) |->
                  IF q \in DOMAIN tree THEN tree[q] ELSE Dir])

\* one archive entry written beneath dst: its parent directories are made,
\* a file of that name is replaced
UnpackEntry(tree, dst, entry) ==
    LET target == dst \o entry.path
        parent == SubSeq(target, 1, Len(target) - 1)
        made == create_dir_all(tree, parent)
    IN  IF ~made.ok THEN made
        ELSE IF IsDir(made.fs, target) THEN FsErr(made.fs, "IsADirectory")
        ELSE FsOk([q \in DOMAIN made.fs \cup {target} |->
                      IF q = target THEN File(entry.data) ELSE made.fs[q]])

RECURSIVE TarUnpack(_, _, _)
\* tar::Archive::unpack(dst): the entries in archive order, stopping at the
\* first that fails
TarUnpack(tree, dst, entries) ==
    IF entries = <<>> THEN FsOk(tree)
    ELSE LET one == UnpackEntry(tree, dst, Head(entries))
         IN  IF ~one.ok THEN one ELSE TarUnpack(one.fs, dst, Tail(entries))

(***************************************************************************)
(* package/compressed.rs: Package::unpack, name                            *)
(***************************************************************************)
\* Package::name asserts that the manifest has a package section
NamePanics(package) == package.manifest.package = None

\* Package::unpack(&self, path). Every error message is built with
\* self.name() before the call it belongs to is checked.
unpack(package, tree, path) ==
    IF NamePanics(package) THEN [ok |-> FALSE, fs |-> tree, panic |-> TRUE]
    ELSE IF ~GzDecode(package.tgz).ok
    THEN FsErr(tree, "failed to decompress package")
    ELSE LET removed == remove_dir_all(tree, path)      \* .ok(): error dropped
             made == create_dir_all(removed.fs, path)
         IN  IF ~made.ok
             THEN FsErr(made.fs, "failed to create extraction directory")
             ELSE LET extracted == TarUnpack(made.fs, path, GzDecode(package.tgz).val)
                  IN  IF ~extracted.ok
                      THEN FsErr(extracted.fs, "failed to extract package")
                      ELSE FsOk(extracted.fs)

(***************************************************************************)
(* package.rs: PackageStore::unpack                                        *)
(***************************************************************************)
\* PackageStore::unpack(package, path)
store_unpack(package, tree, path) ==
    IF ~GzDecode(package.tgz).ok
    THEN FsErr(tree, "Failed to decompress package")
    ELSE LET pkg_dir == Append(path, as_package_dir(package.manifest.name))
             removed == remove_dir_all(tree, pkg_dir)
         IN  IF ~removed.ok THEN FsErr(removed.fs, "Failed to uninstall")
             ELSE LET made == create_dir_all(removed.fs, pkg_dir)
                  IN  IF ~made.ok THEN FsErr(made.fs, "Failed to install dependencies")
                      ELSE LET extracted ==
                                   TarUnpack(made.fs, pkg_dir, GzDecode(package.tgz).val)
                           IN  IF ~extracted.ok
                               THEN FsErr(extracted.fs, "Failed to unpack tar")
                               ELSE FsOk(extracted.fs)


(***************************************************************************)
(* Specification SpecUnpack: both unpack routines on a file system that    *)
(* may already hold the destination and stale files in it                  *)
(***************************************************************************)
MaxUnpackEntries == 2
MaxUnpacks == 2

\* PackageStore::PROTO_DEP_PATH, PROTO_LIB_PATH, PROTO_API_PATH
PROTO_DEP_PATH == << <<"proto">>, <<"dep">> >>
PROTO_LIB_PATH == << <<"proto">>, <<"lib">> >>
PROTO_API_PATH == << <<"proto">>, <<"api">> >>

Entry(path, data) == [path |-> path, mode |-> ReadOnlyMode, data |-> data]

\* the tree that holds the given directories and files (and their parents)
MkTree(dirs, files) ==
    [q \in UNION {Prefixes(d) : d \in dirs \cup DOMAIN files} |->
        IF q \in DOMAIN files THEN File(files[q]) ELSE Dir]

\* no path is both a file and a directory or beneath a file
ConsistentTree(dirs, files) ==
    \A f \in DOMAIN files, q \in dirs \cup DOMAIN files :
        q # f => ~PathStartsWith(q, f)
    /\ DOMAIN files \cap dirs = {}

UnpackEntryChoices ==
    { Entry(<< <<"b.proto">> >>, Data(1)),
      Entry(<< <<"b.proto">> >>, Data(2)),
      Entry(<< <<"sub">>, <<"a.proto">> >>, Data(1)),
      Entry(<< <<"sub">> >>, Data(1)),
      Entry(<< MANIFEST_FILE >>,
            ManifestToString(ManifestNew(PackageManifest(GEO, "lib"), <<>>))) }

UnpackArchives ==
    {[gzip |-> FALSE, tar |-> <<>>]}
        \cup {GzEncode(tar) :
                 tar \in UNION {[1..n -> UnpackEntryChoices] : n \in 0..MaxUnpackEntries}}

GeoDir == Append(PROTO_DEP_PATH, as_package_dir(GEO))
MpDir == Append(PROTO_DEP_PATH, as_package_dir(MP))

StaleFiles ==
    [p \in { Append(GeoDir, <<"old.proto">>), Append(GeoDir, <<"b.proto">>), MpDir }
        |-> Data(9)]
StaleDirs == {PROTO_DEP_PATH, GeoDir, Append(MpDir, <<"sub">>)}

InitialTrees ==
    {MkTree(dirs, [p \in files |-> StaleFiles[p]]) :
        <<dirs, files>> \in
            {x \in (SUBSET StaleDirs) \X (SUBSET DOMAIN StaleFiles) :
                ConsistentTree(x[1], [p \in x[2] |-> StaleFiles[p]])}}

InitUnpack ==
    /\ IdleId
    /\ IdleArchive
    /\ IdleParse
    /\ IdleRelease
    /\ IdleInstall
    /\ IdlePackage
    /\ fs \in InitialTrees
    /\ up_name \in {GEO, MP}
    /\ up_tgz \in UnpackArchives
    /\ unpacked = Pending
    /\ unpack_count = 0

Beneath(tree, dir) == {q \in DOMAIN tree : PathStartsWith(q, dir) /\ q # dir}

\* Package::unpack(&self, path) of the compressed package
UnpackCompressed(path) ==
    /\ unpack_count < MaxUnpacks
    /\ LET package == [manifest |-> ManifestNew(PackageManifest(up_name, "lib"), <<>>),
                       tgz |-> up_tgz]
           out == unpack(package, fs, path)
       IN  /\ fs' = out.fs
           /\ unpacked' = [routine |-> "Package::unpack", dest |-> path,
                           existed |-> path \in DOMAIN fs,
                           before |-> Beneath(fs, path), ok |-> out.ok]
    /\ unpack_count' = unpack_count + 1
    /\ UNCHANGED <<outsideUnpack, up_name, up_tgz>>

\* PackageStore::unpack(package, path)
UnpackStore(path) ==
    /\ unpack_count < MaxUnpacks
    /\ LET package == [manifest |-> PackageManifest(up_name, "lib"), tgz |-> up_tgz]
           out == store_unpack(package, fs, path)
           pkg_dir == Append(path, as_package_dir(up_name))
       IN  /\ fs' = out.fs
           /\ unpacked' = [routine |-> "PackageStore::unpack", dest |-> pkg_dir,
                           existed |-> pkg_dir \in DOMAIN fs,
                           before |-> Beneath(fs, pkg_dir), ok |-> out.ok]
    /\ unpack_count' = unpack_count + 1
    /\ UNCHANGED <<outsideUnpack, up_name, up_tgz>>

NextUnpack ==
    \/ UnpackCompressed(Append(PROTO_DEP_PATH, as_package_dir(up_name)))
    \/ UnpackStore(PROTO_DEP_PATH)

SpecUnpack == InitUnpack /\ [][NextUnpack]_vars

\* the paths the archive's entries name, beneath dest
EntryTargets(dest, tar) == {dest \o tar[i].path : i \in 1..Len(tar)}

\* C7: after a successful unpack the destination holds exactly the archive's
\* entries (each file with the bytes of the last entry of that path, and the
\* directories leading to them); whatever was in the destination before and
\* is not in the archive is gone.
C7_UnpackReplacesDestination ==
    (IsDone(unpacked) /\ unpacked.ok) =>
        LET tar == GzDecode(up_tgz).val
            targets == EntryTargets(unpacked.dest, tar)
        IN  /\ IsDir(fs, unpacked.dest)
            /\ {q \in Beneath(fs, unpacked.dest) : IsFile(fs, q)} = targets
            /\ \A i \in 1..Len(tar) :
                   (\A j \in (i + 1)..Len(tar) : tar[j].path # tar[i].path)
                       => fs[unpacked.dest \o tar[i].path] = File(tar[i].data)
            /\ \A q \in Beneath(fs, unpacked.dest) :
                   IsDir(fs, q) => \E t \in targets : PathStartsWith(t, q)
            /\ \A q \in unpacked.before :
                   (\A t \in targets : ~PathStartsWith(t, q)) => q \notin DOMAIN fs

\* PackageStore::unpack succeeded on a destination that held a file the
\* archive does not carry
C7_Witness ==
    /\ IsDone(unpacked)
    /\ unpacked.ok
    /\ unpacked.routine = "PackageStore::unpack"
    /\ up_tgz.tar # <<>>
    /\ Append(unpacked.dest, <<"old.proto">>) \in unpacked.before

\* the same for Package::unpack
C7_WitnessCompressed ==
    /\ IsDone(unpacked)
    /\ unpacked.ok
    /\ unpacked.routine = "Package::unpack"
    /\ up_tgz.tar # <<>>
    /\ Append(unpacked.dest, <<"old.proto">>) \in unpacked.before


(***************************************************************************)
(* package.rs: PackageStore::resolve and PackageStore::release             *)
(***************************************************************************)
\* reading a manifest file: fs::read_to_string, then toml::from_str
ReadManifestAt(tree, path) ==
    IF ~IsFile(tree, path) THEN Err("NotFound")
    ELSE IF tree[path].data.kind = "bytes" /\ ~tree[path].data.utf8
    THEN Err("InvalidData")
    ELSE RawManifestFromStr(tree[path].data)

\* Manifest::read: the project's own Proto.toml
ManifestRead(tree) == ReadManifestAt(tree, <<MANIFEST_FILE>>)

\* a resolve that hands the declared dependencies back last to first
resolve_reversed(tree, package) ==
    LET manifest ==
            ReadManifestAt(tree,
                PROTO_DEP_PATH \o <<as_package_dir(package), MANIFEST_FILE>>)
        declared == manifest.val.dependencies
    IN  IF ~manifest.ok THEN Err("Failed to locate local manifest for package")
        ELSE Ok([manifest.val EXCEPT !.dependencies =
                    [i \in 1..Len(declared) |-> declared[Len(declared) + 1 - i]]])

\* PackageStore::resolve(package)
resolve(tree, package) ==
    LET manifest ==
            ReadManifestAt(tree,
                PROTO_DEP_PATH \o <<as_package_dir(package), MANIFEST_FILE>>)
    IN  IF ~manifest.ok /\ manifest.err \in {"NotFound", "InvalidData"}
        THEN Err("Failed to locate local manifest for package")
        ELSE IF ~manifest.ok THEN Err("Malformed manifest of package")
        ELSE manifest

\* PackageType::as_path_buf
as_path_buf(type) == IF type = "lib" THEN PROTO_LIB_PATH ELSE PROTO_API_PATH

\* the check of the declaring package's type made for the wrong variant
ApiWithDependencies(pkg, manifest) ==
    pkg.type = "api" /\ manifest.dependencies # <<>>

\* the first ensure! of release fails: a library that declares dependencies
LibWithDependencies(pkg, manifest) ==
    pkg.type = "lib" /\ manifest.dependencies # <<>>

\* a dependency loop that only asks for the dependency to be installed
CheckDependencyInstalledOnly(tree, dependency) ==
    IF ~resolve(tree, dependency.package).ok
    THEN Err("Failed to resolve dependency locally")
    ELSE Ok(dependency)

\* the body of release's loop over the declared dependencies
CheckDependency(tree, dependency) ==
    LET resolved == resolve(tree, dependency.package)
    IN  IF ~resolved.ok THEN Err("Failed to resolve dependency locally")
        ELSE IF resolved.val.package = None
        THEN Err("Local dependencies must contain a package declaration")
        ELSE IF ~(resolved.val.package.type = "lib")
        THEN Err("Depending on api packages is prohibited")
        ELSE Ok(dependency)

\* the extension of a file name
Extension(component) ==
    IF component \in {<<"a.proto">>, <<"b.proto">>} THEN "proto"
    ELSE IF component \in {MANIFEST_FILE} THEN "toml"
    ELSE IF component \in {<<"notes.txt">>} THEN "txt"
    ELSE ""

FileName(path) == path[Len(path)]

Children(tree, dir) ==
    {q \in DOMAIN tree : Len(q) = Len(dir) + 1 /\ PathStartsWith(q, dir)}

RECURSIVE WalkChildren(_, _)
RECURSIVE WalkOne(_, _)
\* WalkDir: depth first, a directory before its contents, the entries of one
\* directory in whatever order the file system lists them
WalkChildren(tree, remaining) ==
    IF remaining = {} THEN {<<>>}
    ELSE UNION {{first \o rest : first \in WalkOne(tree, c),
                                 rest \in WalkChildren(tree, remaining \ {c})} :
                   c \in remaining}
WalkOne(tree, path) ==
    IF IsFile(tree, path) THEN {<<path>>}
    ELSE {<<path>> \o below : below \in WalkChildren(tree, Children(tree, path))}

WalkDir(tree, root) == WalkOne(tree, root)

\* append_path_with_name(entry.path(), entry.path().file_name()): the entry
\* is named by the file name alone
ProtoEntry(tree, pkg_path, path) ==
    [path |-> <<FileName(path)>>, data |-> tree[path].data]

RECURSIVE AppendProtos(_, _, _, _)
\* the loop over the walk: every path with extension "proto" is appended
AppendProtos(archive, tree, pkg_path, walk) ==
    IF walk = <<>> THEN archive
    ELSE IF Extension(FileName(Head(walk))) # "proto"
    THEN AppendProtos(archive, tree, pkg_path, Tail(walk))
    ELSE AppendProtos(Append(archive, ProtoEntry(tree, pkg_path, Head(walk))),
                      tree, pkg_path, Tail(walk))

\* toml::to_string_pretty(&RawManifest::from(manifest))
RawManifestToString(manifest) ==
    [kind |-> "toml", banner |-> FALSE, edition |-> EditionUnknown,
     package |-> manifest.package, dependencies |-> manifest.dependencies]

\* PackageStore::release(), walk being the order WalkDir lists the package
\* directory in
release(tree, walk) ==
    LET manifest == ManifestRead(tree)
    IN  IF ~manifest.ok THEN manifest
        ELSE IF manifest.val.package = None
        THEN Err("Releasing a package requires a package manifest")
        ELSE LET pkg == manifest.val.package
                 deps == manifest.val.dependencies
             IN  IF LibWithDependencies(pkg, manifest.val)
                 THEN Err("Libraries can not have any dependencies")
                 ELSE IF \E i \in 1..Len(deps) : ~CheckDependency(tree, deps[i]).ok
                 THEN CheckDependency(tree,
                          deps[CHOOSE i \in 1..Len(deps) :
                                   /\ ~CheckDependency(tree, deps[i]).ok
                                   /\ \A j \in 1..(i - 1) :
                                          CheckDependency(tree, deps[j]).ok])
                 ELSE IF ~IsDir(tree, as_path_buf(pkg.type))
                 THEN Err("Failed to locate api package")
                 ELSE Ok([manifest |-> pkg,
                          tgz |-> GzEncode(
                              Append(AppendProtos(<<>>, tree, as_path_buf(pkg.type), walk),
                                     [path |-> <<MANIFEST_FILE>>,
                                      data |-> RawManifestToString(manifest.val)]))])


(***************************************************************************)
(* Specification SpecRelease: release() in a project directory, then       *)
(* PackageStore::unpack of the released package into an empty directory    *)
(***************************************************************************)
MaxLocalDeps == 2

ABC == <<"a", "b", "c">>
OUT_PATH == << <<"out">> >>

LocalDependencies ==
    UNION {[1..n -> {Dependency(GEO, "registry"), Dependency(MP, "registry")}] :
              n \in 0..MaxLocalDeps}

\* what ./Proto.toml may hold
ProjectManifests ==
    [package : {None, PackageManifest(ABC, "lib"), PackageManifest(API, "api")},
     dependencies : LocalDependencies]

\* what proto/dep/<dir>/Proto.toml may hold for a dependency
InstalledManifest(name, state) ==
    IF state = "lib"
    THEN RawManifestToString([package |-> PackageManifest(name, "lib"),
                              dependencies |-> <<>>])
    ELSE IF state = "api"
    THEN RawManifestToString([package |-> PackageManifest(name, "api"),
                              dependencies |-> <<>>])
    ELSE IF state = "nopackage"
    THEN RawManifestToString([package |-> None, dependencies |-> <<>>])
    ELSE Data(7)

DepStates == [geo : {"absent", "lib", "api"},
              mp : {"absent", "lib", "nopackage", "garbage"}]

SourceFiles ==
    [p \in { << <<"b.proto">> >>, << <<"sub">>, <<"b.proto">> >>,
             << <<"sub">>, <<"a.proto">> >>, << <<"notes.txt">> >> }
        |-> IF p = << <<"b.proto">> >> THEN Data(1)
            ELSE IF p = << <<"sub">>, <<"b.proto">> >> THEN Data(2)
            ELSE IF p = << <<"sub">>, <<"a.proto">> >> THEN Data(3)
            ELSE Data(4)]

\* the project directory: the manifest (or none), the dependency store, the
\* package's sources beneath root, and empty directories to unpack into
ProjectTree(manifest, deps, root, sources) ==
    LET manifestFile ==
            IF manifest = None THEN <<>>
            ELSE [p \in {<<MANIFEST_FILE>>} |-> RawManifestToString(manifest)]
        geoFile ==
            IF deps.geo = "absent" THEN <<>>
            ELSE [p \in {Append(GeoDir, MANIFEST_FILE)} |->
                     InstalledManifest(GEO, deps.geo)]
        mpFile ==
            IF deps.mp = "absent" THEN <<>>
            ELSE [p \in {Append(MpDir, MANIFEST_FILE)} |->
                     InstalledManifest(MP, deps.mp)]
        sourceFiles == [p \in {root \o q : q \in sources} |->
                           SourceFiles[SubSeq(p, Len(root) + 1, Len(p))]]
    IN  MkTree({PROTO_DEP_PATH, root,
                Append(OUT_PATH, as_package_dir(ABC)),
                Append(OUT_PATH, as_package_dir(API))},
               manifestFile @@ geoFile @@ mpFile @@ sourceFiles)

InitRelease ==
    /\ IdleId
    /\ IdleArchive
    /\ IdleParse
    /\ IdleUnpack
    /\ IdleInstall
    /\ IdlePackage
    /\ \E manifest \in ProjectManifests \cup {None}, deps \in DepStates,
          root \in {PROTO_LIB_PATH, PROTO_API_PATH},
          sources \in SUBSET DOMAIN SourceFiles :
           fs = ProjectTree(manifest, deps, root, sources)
    /\ released = Pending

\* the orders in which release may meet the package directory's entries
ReleaseWalks(tree) ==
    IF /\ ManifestRead(tree).ok
       /\ ManifestRead(tree).val.package # None
       /\ IsDir(tree, as_path_buf(ManifestRead(tree).val.package.type))
    THEN WalkDir(tree, as_path_buf(ManifestRead(tree).val.package.type))
    ELSE {<<>>}

\* PackageStore::release()
Release ==
    /\ released = Pending
    /\ \E walk \in ReleaseWalks(fs) : released' = release(fs, walk)
    /\ UNCHANGED <<outsideRelease, fs, unpacked, unpack_count>>

\* PackageStore::unpack(&released, "out")
ReleaseUnpack ==
    /\ IsOk(released)
    /\ unpacked = Pending
    /\ LET out == store_unpack(released.val, fs, OUT_PATH)
           pkg_dir == Append(OUT_PATH, as_package_dir(released.val.manifest.name))
       IN  /\ fs' = out.fs
           /\ unpacked' = [routine |-> "PackageStore::unpack", dest |-> pkg_dir,
                           existed |-> pkg_dir \in DOMAIN fs,
                           before |-> Beneath(fs, pkg_dir), ok |-> out.ok]
    /\ unpack_count' = unpack_count + 1
    /\ UNCHANGED <<outsideRelease, released>>

NextRelease == Release \/ ReleaseUnpack

SpecRelease == InitRelease /\ [][NextRelease]_vars

\* what ./Proto.toml declares, read off the file itself
ProjectFile == fs[<<MANIFEST_FILE>>].data
HasProjectManifest ==
    IsFile(fs, <<MANIFEST_FILE>>) /\ ProjectFile.kind = "toml"

\* the manifest installed for a dependency is there and is of a Lib package
InstalledAsLib(name) ==
    LET path == PROTO_DEP_PATH \o <<as_package_dir(name), MANIFEST_FILE>>
    IN  /\ IsFile(fs, path)
        /\ fs[path].data.kind = "toml"
        /\ fs[path].data.package # None
        /\ fs[path].data.package.type = "lib"

\* C4: release() fails, and returns no Package, whenever the local manifest
\* is of kind Lib and declares a dependency, whatever the dependency store
\* holds.
C4_LibWithDependenciesFails ==
    ( /\ IsDone(released)
      /\ HasProjectManifest
      /\ ProjectFile.package # None
      /\ ProjectFile.package.type = "lib"
      /\ ProjectFile.dependencies # <<>> ) => ~released.ok

\* a Lib manifest whose dependencies are all installed Lib packages, with
\* its sources in place, was refused
C4_Witness ==
    /\ IsErr(released)
    /\ HasProjectManifest
    /\ ProjectFile.package # None
    /\ ProjectFile.package.type = "lib"
    /\ ProjectFile.dependencies # <<>>
    /\ \A i \in 1..Len(ProjectFile.dependencies) :
           InstalledAsLib(ProjectFile.dependencies[i].package)
    /\ IsDir(fs, PROTO_LIB_PATH)

\* C5: release() succeeds only if every dependency the local manifest
\* declares is installed locally and resolves to a Lib package; a dependency
\* that is missing or resolves to an Api package makes it fail.
C5_ReleaseNeedsInstalledLibDependencies ==
    IsOk(released) =>
        /\ HasProjectManifest
        /\ \A i \in 1..Len(ProjectFile.dependencies) :
               InstalledAsLib(ProjectFile.dependencies[i].package)

\* an Api package with two different dependencies was released
C5_Witness ==
    /\ IsOk(released)
    /\ \E i, j \in 1..Len(ProjectFile.dependencies) :
           ProjectFile.dependencies[i].package # ProjectFile.dependencies[j].package

\* the schema files beneath the released package's source directory
SchemaFiles(pkg_path) ==
    {q \in Beneath(fs, pkg_path) :
        IsFile(fs, q) /\ Extension(FileName(q)) = "proto"}

\* C8: release followed by unpack into an empty directory yields every
\* schema file of the package's source directory at the same relative path
\* with the same bytes, files in subdirectories included.
C8_ReleaseUnpackKeepsPaths ==
    (IsOk(released) /\ IsDone(unpacked) /\ unpacked.ok) =>
        LET pkg_path == as_path_buf(released.val.manifest.type)
        IN  \A q \in SchemaFiles(pkg_path) :
                LET there == unpacked.dest \o SubSeq(q, Len(pkg_path) + 1, Len(q))
                IN  IsFile(fs, there) /\ fs[there] = fs[q]

\* what release and unpack do keep: every schema file name is there, holding
\* the bytes of one of the source files of that name
ReleaseUnpackKeepsFileNames ==
    (IsOk(released) /\ IsDone(unpacked) /\ unpacked.ok) =>
        LET pkg_path == as_path_buf(released.val.manifest.type)
        IN  \A q \in SchemaFiles(pkg_path) :
                /\ IsFile(fs, Append(unpacked.dest, FileName(q)))
                /\ \E o \in SchemaFiles(pkg_path) :
                       /\ FileName(o) = FileName(q)
                       /\ fs[Append(unpacked.dest, FileName(q))] = fs[o]


(***************************************************************************)
(* package.rs: PackageStore::create, clear, uninstall                      *)
(***************************************************************************)
\* PackageStore::create(type): the directories of the project layout
store_create(tree, type) ==
    IF type = "lib" THEN create_dir_all(tree, PROTO_LIB_PATH)
    ELSE IF type = "api"
    THEN LET api == create_dir_all(tree, PROTO_API_PATH)
         IN  IF ~api.ok THEN api ELSE create_dir_all(api.fs, PROTO_DEP_PATH)
    ELSE create_dir_all(tree, PROTO_DEP_PATH)

\* PackageStore::clear()
clear(tree) ==
    LET removed == remove_dir_all(tree, PROTO_DEP_PATH)
    IN  IF removed.ok THEN removed
        ELSE FsErr(removed.fs, "Failed to uninstall dependencies")

\* PackageStore::uninstall(package)
uninstall(tree, package) ==
    LET pkg_dir == Append(PROTO_DEP_PATH, as_package_dir(package))
        removed == remove_dir_all(tree, pkg_dir)
    IN  IF removed.ok THEN removed
        ELSE FsErr(removed.fs, "Failed to uninstall {dependency}")

(***************************************************************************)
(* The registry install downloads from                                     *)
(***************************************************************************)
\* the manifests of the packages the registry holds: m-p depends on geo, api
\* on geo and m-p in that order
RegistryManifest(name) ==
    [package |-> PackageManifest(name, IF name = GEO THEN "lib" ELSE "api"),
     dependencies |->
        IF name = MP THEN <<Dependency(GEO, "registry")>>
        ELSE IF name = API
        THEN <<Dependency(GEO, "registry"), Dependency(MP, "registry")>>
        ELSE <<>>]

\* their archives: the schema files, then the manifest. The archive of api
\* also carries files in directories named after its dependencies.
RegistryArchive(name) ==
    LET manifestEntry ==
            Entry(<<MANIFEST_FILE>>, RawManifestToString(RegistryManifest(name)))
    IN  IF name = GEO
        THEN <<Entry(<< <<"b.proto">> >>, Data(1)), manifestEntry>>
        ELSE IF name = MP
        THEN <<Entry(<< <<"a.proto">> >>, Data(2)), manifestEntry>>
        ELSE <<Entry(<< as_package_dir(GEO), <<"b.proto">> >>, Data(3)),
               Entry(<< as_package_dir(MP), <<"b.proto">> >>, Data(3)),
               Entry(<< <<"a.proto">> >>, Data(3)),
               manifestEntry>>

RegistryNames == {GEO, MP, API}

\* the Package value of package.rs: the package manifest and the archive
RegistryPackage(name) ==
    [manifest |-> RegistryManifest(name).package,
     tgz |-> GzEncode(RegistryArchive(name))]

\* Registry::download(dependency): the package, or a not-found error, or a
\* transport error
DownloadOutcomes(dependency) ==
    {Err("transport failure")}
        \cup (IF dependency.package \in RegistryNames
              THEN {Ok(RegistryPackage(dependency.package))}
              ELSE {Err("package not found")})

(***************************************************************************)
(* Specification SpecInstall: the store operations, one after the other,   *)
(* on a project whose dependency store may already hold directories.       *)
(* install suspends at every download and file system call, so each of     *)
(* them is a step.                                                         *)
(***************************************************************************)
MaxOps == 2

MpStrDir == Append(PROTO_DEP_PATH, as_str(MP))
ApiDir == Append(PROTO_DEP_PATH, as_package_dir(API))

\* what the store may hold before the first operation
StoreStates ==
    [geo : {"absent", "empty", "stale"},
     mp : {"absent", "empty"},
     api : {"absent", "stale"},
     dashed : {"absent", "empty", "stale"}]

StoreTree(state) ==
    LET geoDir == Append(MpStrDir, as_package_dir(GEO))
        dirs == {PROTO_DEP_PATH}
                    \cup (IF state.geo = "absent" THEN {} ELSE {GeoDir})
                    \cup (IF state.mp = "absent" THEN {} ELSE {MpDir})
                    \cup (IF state.api = "absent" THEN {} ELSE {ApiDir})
                    \cup (IF state.dashed = "absent" THEN {} ELSE {geoDir})
        files == (IF state.geo = "stale" THEN {Append(GeoDir, <<"old.proto">>)} ELSE {})
                    \cup (IF state.api = "stale"
                          THEN {Append(ApiDir, <<"old.proto">>)} ELSE {})
                    \cup (IF state.dashed = "stale"
                          THEN {Append(geoDir, <<"old.proto">>)} ELSE {})
    IN  MkTree(dirs, [q \in files |-> Data(9)])

InstallTrees == {<<>>} \cup {StoreTree(state) : state \in StoreStates}

\* the packages install is asked for; abc is not in the registry
InstallRequests == {Dependency(name, "registry") : name \in RegistryNames \cup {ABC}}

InitInstall ==
    /\ IdleId
    /\ IdleArchive
    /\ IdleParse
    /\ IdleRelease
    /\ IdleInstall
    /\ IdlePackage
    /\ fs \in InstallTrees
    /\ up_name = GEO
    /\ up_tgz = GzEncode(<<>>)
    /\ unpacked = Pending
    /\ unpack_count = 0

\* no install is suspended (the last one returned or its task was dropped)
\* and another operation may start
StoreIdle == inst.pc \in {"idle", "done", "interrupted"} /\ ops < MaxOps

\* what the call of install(dependency) comes after: an install of the same
\* package that returned Ok or was dropped, or anything else
ComesAfter(dependency) ==
    IF inst.pc = "interrupted" /\ inst.request = dependency THEN "interrupted"
    ELSE IF inst.pc = "done" /\ IsOk(install_result) /\ inst.request = dependency
    THEN "completed"
    ELSE "other"

\* PackageStore::create(type)
StoreCreate(type) ==
    /\ StoreIdle
    /\ LET out == store_create(fs, type)
       IN  /\ fs' = out.fs
           /\ store_result' = IF out.ok THEN Ok("created") ELSE Err(out.err)
    /\ ops' = ops + 1
    /\ inst' = [pc |-> "idle"]
    /\ UNCHANGED <<outsideInstall, unpacked, downloads, install_result>>

\* PackageStore::clear()
StoreClear ==
    /\ StoreIdle
    /\ LET out == clear(fs)
       IN  /\ fs' = out.fs
           /\ store_result' = IF out.ok THEN Ok("cleared") ELSE Err(out.err)
    /\ ops' = ops + 1
    /\ inst' = [pc |-> "idle"]
    /\ UNCHANGED <<outsideInstall, unpacked, downloads, install_result>>

\* PackageStore::uninstall(package)
StoreUninstall(package) ==
    /\ StoreIdle
    /\ LET out == uninstall(fs, package)
       IN  /\ fs' = out.fs
           /\ store_result' = IF out.ok THEN Ok("uninstalled") ELSE Err(out.err)
    /\ ops' = ops + 1
    /\ inst' = [pc |-> "idle"]
    /\ UNCHANGED <<outsideInstall, unpacked, downloads, install_result>>

\* install returns: the locals stay readable in inst until the next operation
InstallReturn(locals, result) ==
    /\ inst' = [locals EXCEPT !.pc = "done"]
    /\ install_result' = result

\* the record of one PackageStore::unpack made by install
UnpackRecord(package, path, out) ==
    LET pkg_dir == Append(path, as_package_dir(package.manifest.name))
    IN  [routine |-> "PackageStore::unpack", dest |-> pkg_dir,
         existed |-> pkg_dir \in DOMAIN fs,
         before |-> Beneath(fs, pkg_dir), ok |-> out.ok]

\* install(dependency, registry), up to the first await: the download of
\* the requested package
InstallDownload(dependency) ==
    /\ StoreIdle
    /\ ops' = ops + 1
    /\ \E outcome \in DownloadOutcomes(dependency) :
           LET locals == [pc |-> "unpack", request |-> dependency, start |-> fs,
                          after |-> ComesAfter(dependency),
                          package |-> IF outcome.ok THEN outcome.val ELSE None,
                          dependencies |-> <<>>, index |-> 0, dependency |-> None]
           IN  IF outcome.ok
               THEN /\ inst' = locals
                    /\ install_result' = Pending
                    /\ downloads' = <<outcome.val.manifest.name>>
               ELSE /\ InstallReturn(locals, outcome)
                    /\ downloads' = <<>>
    /\ UNCHANGED <<outsideInstall, fs, unpacked, store_result>>

\* Self::unpack(&package, dep_dir).await?
InstallUnpack ==
    /\ inst.pc = "unpack"
    /\ LET out == store_unpack(inst.package, fs, PROTO_DEP_PATH)
       IN  /\ fs' = out.fs
           /\ unpacked' = UnpackRecord(inst.package, PROTO_DEP_PATH, out)
           /\ IF out.ok
              THEN inst' = [inst EXCEPT !.pc = "resolve"] /\ UNCHANGED install_result
              ELSE InstallReturn(inst, Err(out.err))
    /\ UNCHANGED <<outsideInstall, downloads, store_result, ops>>

\* Self::resolve(&package.manifest.name).await?, and the loop's exit when
\* the manifest declares no dependency
InstallResolve ==
    /\ inst.pc = "resolve"
    /\ LET manifest == resolve(fs, inst.package.manifest.name)
       IN  IF ~manifest.ok THEN InstallReturn(inst, manifest)
           ELSE IF manifest.val.dependencies = <<>>
           THEN InstallReturn([inst EXCEPT !.index = 1], Ok("installed"))
           ELSE /\ inst' = [inst EXCEPT !.pc = "download",
                                        !.dependencies = manifest.val.dependencies,
                                        !.index = 1]
                /\ UNCHANGED install_result
    /\ UNCHANGED <<outsideInstall, fs, unpacked, downloads, store_result, ops>>

\* a loop that uninstalls the requested package when a download fails
InstallDependencyDownloadRollingBack ==
    /\ inst.pc = "download"
    /\ \E outcome \in DownloadOutcomes(inst.dependencies[inst.index]) :
           IF outcome.ok
           THEN /\ inst' = [inst EXCEPT !.pc = "unpack_dependency",
                                        !.dependency = outcome.val]
                /\ downloads' = Append(downloads, outcome.val.manifest.name)
                /\ UNCHANGED <<install_result, fs>>
           ELSE /\ InstallReturn(inst, outcome)
                /\ fs' = uninstall(fs, inst.package.manifest.name).fs
                /\ UNCHANGED downloads
    /\ UNCHANGED <<outsideInstall, unpacked, store_result, ops>>

\* registry.download(dependency).await? in the loop
InstallDependencyDownload ==
    /\ inst.pc = "download"
    /\ \E outcome \in DownloadOutcomes(inst.dependencies[inst.index]) :
           IF outcome.ok
           THEN /\ inst' = [inst EXCEPT !.pc = "unpack_dependency",
                                        !.dependency = outcome.val]
                /\ downloads' = Append(downloads, outcome.val.manifest.name)
                /\ UNCHANGED install_result
           ELSE /\ InstallReturn(inst, outcome)
                /\ UNCHANGED downloads
    /\ UNCHANGED <<outsideInstall, fs, unpacked, store_result, ops>>

\* let package_dir = &dep_dir.join(package.manifest.name.as_str())
package_dir(package) == Append(PROTO_DEP_PATH, as_str(package.manifest.name))

\* Self::unpack(&dependency, &package_dir).await? and the loop's next turn
InstallDependencyUnpack ==
    /\ inst.pc = "unpack_dependency"
    /\ LET out == store_unpack(inst.dependency, fs, package_dir(inst.package))
           next == [inst EXCEPT !.index = inst.index + 1]
       IN  /\ fs' = out.fs
           /\ unpacked' = UnpackRecord(inst.dependency, package_dir(inst.package), out)
           /\ IF ~out.ok THEN InstallReturn(inst, Err(out.err))
              ELSE IF next.index > Len(inst.dependencies)
              THEN InstallReturn(next, Ok("installed"))
              ELSE inst' = [next EXCEPT !.pc = "download"] /\ UNCHANGED install_result
    /\ UNCHANGED <<outsideInstall, downloads, store_result, ops>>

\* the trees PackageStore::unpack leaves at its awaits: before the removal,
\* after it, and after the directory is made again
UnpackSuspendedTrees(package, tree, path) ==
    LET pkg_dir == Append(path, as_package_dir(package.manifest.name))
        removed == remove_dir_all(tree, pkg_dir)
    IN  IF ~removed.ok THEN {tree}
        ELSE {tree, removed.fs, create_dir_all(removed.fs, pkg_dir).fs}

\* the task running install is dropped at one of its awaits; install never
\* returns
InstallInterrupt ==
    /\ inst.pc \in {"unpack", "resolve", "download", "unpack_dependency"}
    /\ inst' = [inst EXCEPT !.pc = "interrupted"]
    /\ fs' \in IF inst.pc = "unpack"
                THEN UnpackSuspendedTrees(inst.package, fs, PROTO_DEP_PATH)
                ELSE IF inst.pc = "unpack_dependency"
                THEN UnpackSuspendedTrees(inst.dependency, fs,
                                          package_dir(inst.package))
                ELSE {fs}
    /\ UNCHANGED <<outsideInstall, unpacked, downloads, install_result,
                   store_result, ops>>

NextInstall ==
    \/ \E type \in {"none", "lib", "api"} : StoreCreate(type)
    \/ StoreClear
    \/ \E package \in {GEO, MP} : StoreUninstall(package)
    \/ \E dependency \in InstallRequests : InstallDownload(dependency)
    \/ InstallUnpack
    \/ InstallResolve
    \/ InstallDependencyDownload
    \/ InstallDependencyUnpack
    \/ InstallInterrupt

SpecInstall == InitInstall /\ [][NextInstall]_vars

\* install has just returned
Returned == inst.pc = "done" /\ IsDone(install_result)

\* the store install was called on is initialised and holds no package
CalledOnEmptyStore ==
    /\ IsDir(inst.start, PROTO_DEP_PATH)
    /\ Beneath(inst.start, PROTO_DEP_PATH) = {}

\* the error install returned is one of the registry's
DownloadFailed ==
    /\ IsErr(install_result)
    /\ install_result.err \in {"transport failure", "package not found"}

\* the files at the top of the archive of the named package are in dir
UnpackedAt(tree, name, dir) ==
    \A i \in 1..Len(RegistryArchive(name)) :
        LET entry == RegistryArchive(name)[i]
        IN  Len(entry.path) = 1 =>
                /\ IsFile(tree, dir \o entry.path)
                /\ tree[dir \o entry.path] = File(entry.data)

HasDash(component) == \E i \in 1..Len(component) : component[i] = "-"

\* C9: after a successful install of P, P is unpacked at proto/dep/<dir(P)>
\* and each dependency D its manifest declares at
\* proto/dep/<dir(P)>/<dir(D)>, dir replacing every '-' by '_'; no directory
\* the install created has a '-' in its name.
C9_InstallLayout ==
    (Returned /\ IsOk(install_result)) =>
        LET name == inst.package.manifest.name
            dirP == Append(PROTO_DEP_PATH, as_package_dir(name))
            dependencies == RegistryManifest(name).dependencies
        IN  /\ UnpackedAt(fs, name, dirP)
            /\ \A i \in 1..Len(dependencies) :
                   UnpackedAt(fs, dependencies[i].package,
                              Append(dirP, as_package_dir(dependencies[i].package)))
            /\ \A q \in DOMAIN fs \ DOMAIN inst.start :
                   IsDir(fs, q) => ~HasDash(q[Len(q)])

\* C10: an unpack whose destination does not exist succeeds, and an install
\* called on an initialised store that holds no package succeeds unless a
\* download fails.
C10_UnpackIgnoresRemovalError ==
    /\ (IsDone(unpacked) /\ ~unpacked.existed) => unpacked.ok
    /\ (Returned /\ CalledOnEmptyStore /\ ~DownloadFailed) => IsOk(install_result)

\* the names of the dependencies a manifest declares, in declaration order
DeclaredNames(manifest) ==
    [i \in 1..Len(manifest.dependencies) |-> manifest.dependencies[i].package]

\* where install unpacked the package it downloaded last
LastDestination ==
    IF Len(downloads) = 1
    THEN Append(PROTO_DEP_PATH, as_package_dir(downloads[1]))
    ELSE Append(package_dir(inst.package),
                as_package_dir(downloads[Len(downloads)]))

\* C11: a successful install(P) has downloaded exactly P and then the
\* dependencies P's manifest declares, in declaration order, and nothing
\* else (no dependency of a dependency); whenever the next download is about
\* to start, the package downloaded last has already been unpacked.
C11_DownloadSequence ==
    /\ (Returned /\ IsOk(install_result)) =>
           downloads = <<inst.request.package>>
                           \o DeclaredNames(RegistryManifest(inst.request.package))
    /\ inst.pc = "download" =>
           /\ IsDone(unpacked)
           /\ unpacked.ok
           /\ unpacked.dest = LastDestination

\* install(api) succeeded: api, geo and m-p were downloaded, and geo, which
\* m-p declares, was not downloaded for m-p
C11_Witness ==
    /\ Returned
    /\ IsOk(install_result)
    /\ inst.request.package = API
    /\ Len(downloads) = 3

\* install returned an error from the k-th turn of its dependency loop
FailedInLoop ==
    /\ Returned
    /\ IsErr(install_result)
    /\ inst.index \in 1..Len(inst.dependencies)

\* C12: when the download or the unpack of the k-th dependency fails,
\* install returns with that error at once: the downloads made are P and the
\* dependencies up to the k-th at most, the last unpack made is that of the
\* package downloaded last, and P and the dependencies before the k-th are
\* still unpacked where install put them.
C12_FailFastNoRollback ==
    FailedInLoop =>
        LET k == inst.index
            name == inst.package.manifest.name
            names == DeclaredNames(inst)
        IN  /\ \/ /\ DownloadFailed
                  /\ downloads = <<name>> \o SubSeq(names, 1, k - 1)
                  /\ unpacked.ok
               \/ /\ ~DownloadFailed
                  /\ downloads = <<name>> \o SubSeq(names, 1, k)
                  /\ ~unpacked.ok
            /\ unpacked.dest = LastDestination
            /\ UnpackedAt(fs, name, Append(PROTO_DEP_PATH, as_package_dir(name)))
            /\ \A i \in 1..(k - 1) :
                   UnpackedAt(fs, names[i],
                              Append(package_dir(inst.package),
                                     as_package_dir(names[i])))

\* install(api) failed at its second dependency, after geo was unpacked
C12_Witness ==
    /\ FailedInLoop
    /\ inst.request.package = API
    /\ inst.index = 2
    /\ DownloadFailed

\* install(m-p) failed at the unpack of its first dependency
C12_WitnessUnpack ==
    /\ FailedInLoop
    /\ inst.request.package = MP
    /\ ~DownloadFailed

\* the files an unpack of the named package writes beneath dir
ArchiveTargets(name, dir) ==
    {dir \o RegistryArchive(name)[i].path : i \in 1..Len(RegistryArchive(name))}

\* C13: an install(P) called again after an install(P) that returned Ok or
\* was interrupted, the downloads succeeding, returns Ok; P and the
\* dependencies it declares are unpacked where an install puts them, and
\* every file in their directories is one their archives carry.
C13_RerunIdempotent ==
    (Returned /\ inst.after \in {"completed", "interrupted"} /\ ~DownloadFailed) =>
        LET name == inst.package.manifest.name
            names == DeclaredNames(RegistryManifest(name))
            dirP == Append(PROTO_DEP_PATH, as_package_dir(name))
            dirD(i) == Append(package_dir(inst.package), as_package_dir(names[i]))
            carried == ArchiveTargets(name, dirP)
                           \cup UNION {ArchiveTargets(names[i], dirD(i)) :
                                          i \in 1..Len(names)}
        IN  /\ IsOk(install_result)
            /\ UnpackedAt(fs, name, dirP)
            /\ \A i \in 1..Len(names) : UnpackedAt(fs, names[i], dirD(i))
            /\ \A q \in Beneath(fs, dirP)
                            \cup UNION {Beneath(fs, dirD(i)) : i \in 1..Len(names)} :
                   IsFile(fs, q) => q \in carried


(***************************************************************************)
(* package/compressed.rs: Package::name, version, digest, lock             *)
(***************************************************************************)
\* a call that did not return: an assert! or expect failed
Panic == [panic |-> TRUE]
Panicked(out) == "panic" \in DOMAIN out

\* Package::name(&self)
package_name(package) ==
    IF NamePanics(package) THEN Panic ELSE Ok(package.manifest.package.name)

\* Package::version(&self)
package_version(package) ==
    IF package.manifest.package = None THEN Panic
    ELSE Ok(package.manifest.package.version)

\* Package::digest(&self, algorithm): a function of the archive bytes alone
digest(package) == Ok([digest_of |-> package.tgz])

\* Package::lock -> LockedPackage::lock: name and version from the manifest
\* and the digest of the bytes
lock(package) ==
    IF Panicked(package_name(package)) \/ Panicked(package_version(package))
    THEN Panic
    ELSE Ok([name |-> package_name(package).val,
             version |-> package_version(package).val,
             digest |-> digest(package).val])

(***************************************************************************)
(* Specification SpecPackage: a Package is made by create or by parse and  *)
(* one of its methods is called                                            *)
(***************************************************************************)
PackageTrees ==
    {<<>>, MkTree({GeoDir}, [q \in {Append(GeoDir, <<"old.proto">>)} |-> Data(9)])}

InitPackage ==
    /\ IdleId
    /\ IdleArchive
    /\ IdleParse
    /\ IdleUnpack
    /\ IdleRelease
    /\ IdleInstall
    /\ IdlePackage
    /\ fs \in PackageTrees

\* Package::create(manifest, files)
PackageCreate ==
    /\ pkg_made = Pending
    /\ \E manifest \in ManifestsIn, F \in FileSets :
           \E inserts \in InsertionOrders(F) :
               pkg_made' = create(manifest, inserts)
    /\ UNCHANGED <<outsidePackage, fs, pkg_call>>

\* Package::parse(tgz)
PackageParse ==
    /\ pkg_made = Pending
    /\ \E tgz \in ForeignArchives : pkg_made' = parse(tgz)
    /\ UNCHANGED <<outsidePackage, fs, pkg_call>>

\* a method is called on the Package that was returned
Callable == IsOk(pkg_made) /\ pkg_call = Pending

CallName ==
    /\ Callable
    /\ pkg_call' = [method |-> "name",
                    panicked |-> Panicked(package_name(pkg_made.val))]
    /\ UNCHANGED <<outsidePackage, fs, pkg_made>>

CallVersion ==
    /\ Callable
    /\ pkg_call' = [method |-> "version",
                    panicked |-> Panicked(package_version(pkg_made.val))]
    /\ UNCHANGED <<outsidePackage, fs, pkg_made>>

CallDigest ==
    /\ Callable
    /\ pkg_call' = [method |-> "digest",
                    panicked |-> Panicked(digest(pkg_made.val))]
    /\ UNCHANGED <<outsidePackage, fs, pkg_made>>

CallLock ==
    /\ Callable
    /\ pkg_call' = [method |-> "lock", panicked |-> Panicked(lock(pkg_made.val))]
    /\ UNCHANGED <<outsidePackage, fs, pkg_made>>

CallUnpack ==
    /\ Callable
    /\ LET out == unpack(pkg_made.val, fs, GeoDir)
       IN  /\ fs' = out.fs
           /\ pkg_call' = [method |-> "unpack", panicked |-> Panicked(out)]
    /\ UNCHANGED <<outsidePackage, pkg_made>>

NextPackage ==
    \/ PackageCreate
    \/ PackageParse
    \/ CallName
    \/ CallVersion
    \/ CallDigest
    \/ CallLock
    \/ CallUnpack

SpecPackage == InitPackage /\ [][NextPackage]_vars

\* C14: every Package that create or parse returns has a manifest with a
\* package section, and no method called on it panics.
C14_PackagesHavePackageSection ==
    /\ IsOk(pkg_made) => pkg_made.val.manifest.package # None
    /\ IsDone(pkg_call) => ~pkg_call.panicked

====
